---- MODULE Spec2Model ----
(***************************************************************************)
(* Model of the model-acquisition engine of src-tauri/src/managers/model.rs *)
(* (ModelManager): the per-model status map, the files of the models       *)
(* directory (<name>, <name>.partial, <name>.extracting) and the calls      *)
(* download_model, delete_model and cancel_download, each split at its     *)
(* filesystem operations, lock sections and await points so that calls     *)
(* running on different threads interleave as the code allows.             *)
(***************************************************************************)
EXTENDS Integers, Sequences, FiniteSets, TLC

\* ------------------------------------------------------------------ bounds

\* size_bytes of every manifest entry (the manifest is a resource file).
SizeBytes == 2
\* Longest chunk the byte stream hands over in one piece.
MaxChunk == 2
\* Bytes a file may exceed the manifest size by before the model stops
\* feeding it (the server may send more than the manifest declares).
MaxExcess == 1

MaxFileLen == SizeBytes + MaxExcess

\* Times the process is stopped and started again in one run.
MaxBoots == 1

\* --------------------------------------------------------- program's data

\* Two of the descriptors of ModelManager::new: the file model "small" and
\* the directory (archive) model "parakeet-tdt-0.6b-v3", "parakeet" here.
Models == {"small", "parakeet"}

IsDirectory(m) == m = "parakeet"

\* Threads that run engine calls.
Tasks == {1, 2}

Bytes == {0, 1}

RECURSIVE SeqsUpTo(_)
SeqsUpTo(n) ==
    IF n = 0 THEN {<<>>}
    ELSE LET S == SeqsUpTo(n - 1)
         IN  S \cup {Append(s, b) : s \in {x \in S : Len(x) = n - 1}, b \in Bytes}

\* The artifact the manifest entry was computed from.
GoodContent == [i \in 1..SizeBytes |-> i % 2]

\* Sha256 followed by hex::encode, as a collision-free digest of the bytes:
\* the leading 1 keeps the length, so different byte strings differ.
RECURSIVE Sha256(_)
Sha256(data) ==
    IF data = <<>> THEN 1
    ELSE 2 * Sha256(SubSeq(data, 1, Len(data) - 1)) + data[Len(data)]

\* The sha256 the manifest records for the artifact.
ManifestSha256 == Sha256(GoodContent)

\* ModelManifest::digest_for: the same digest for both descriptors.
DigestFor(m) == [model_id |-> m, sha256 |-> ManifestSha256, size_bytes |-> SizeBytes]

\* ------------------------------------------------------------- filesystem

NoObj == [kind |-> "none", data |-> <<>>, tree |-> {}]
FileObj(d) == [kind |-> "file", data |-> d, tree |-> {}]
DirObj(tr) == [kind |-> "dir", data |-> <<>>, tree |-> tr]

Exists(o) == o.kind # "none"
\* metadata().map(|m| m.len()).unwrap_or(0)
LenOrZero(o) == IF o.kind = "file" THEN Len(o.data) ELSE 0

VerifyDownload_HashFirst(o, digest) ==
    IF ~Exists(o) THEN "stat_error"
    ELSE IF Sha256(o.data) # digest.sha256 THEN "hash_mismatch"
    ELSE IF Len(o.data) # digest.size_bytes THEN "size_mismatch"
    ELSE "ok"

\* fs::metadata + the streamed hash of verify_download.
VerifyDownload(o, digest) ==
    IF ~Exists(o) THEN "stat_error"
    ELSE IF Len(o.data) # digest.size_bytes THEN "size_mismatch"
    ELSE IF Sha256(o.data) # digest.sha256 THEN "hash_mismatch"
    ELSE "ok"

\* ---------------------------------------------------------------- archives

\* What the verified archive of the directory model holds. An entry is
\* [path, type, data]: a path is its sequence of components, data the bytes
\* of a regular file.
ArchiveLayouts == {"wrapped", "flat", "symlink", "mixed"}

ArchiveEntries(layout) ==
    CASE layout = "wrapped" ->
            << [path |-> <<"pkg">>, type |-> "dir", data |-> <<>>],
               [path |-> <<"pkg", "a">>, type |-> "file", data |-> <<1>>] >>
      [] layout = "flat" ->
            << [path |-> <<".", "a">>, type |-> "file", data |-> <<1>>],
               [path |-> <<"b">>, type |-> "file", data |-> <<1>>] >>
      [] layout = "symlink" ->
            << [path |-> <<"pkg">>, type |-> "dir", data |-> <<>>],
               [path |-> <<"pkg", "l">>, type |-> "symlink", data |-> <<>>],
               [path |-> <<"pkg", "a">>, type |-> "file", data |-> <<1>>] >>
      [] layout = "mixed" ->
            << [path |-> <<"pkg", "a">>, type |-> "file", data |-> <<1>>],
               [path |-> <<"b">>, type |-> "file", data |-> <<1>>] >>

\* Path::components of an entry path: CurDir, ParentDir, RootDir, a Prefix
\* (the drive or volume a Windows path starts with), and Normal(segment) for
\* every other segment, which is written as the segment itself.
CurDir == "."
ParentDir == ".."
RootDir == "/"
Prefix == "Prefix(C:)"

\* Segments std reads a drive prefix in. Path::components parses a prefix
\* at the start of a path only, so on a Windows build the "C:" of "a/C:/b"
\* is Normal("C:"); on the other targets no segment has a prefix, and "C:"
\* is a name like any other.
HasPrefix(segment) == segment = "C:"

\* Where base is: PathBuf::from(base).
Base == "base"

\* PathBuf::push(segment): a segment with a prefix replaces the whole path,
\* any other segment is joined to it.
Push(sanitized, segment) ==
    IF HasPrefix(segment) THEN [root |-> segment, path |-> <<>>]
    ELSE [root |-> sanitized.root, path |-> Append(sanitized.path, segment)]

\* The loop of sanitize_archive_entry_path from component i on.
RECURSIVE SanitizeFrom(_, _, _)
SanitizeFrom(entry, i, sanitized) ==
    IF i > Len(entry) THEN [ok |-> TRUE, root |-> sanitized.root, path |-> sanitized.path]
    ELSE IF entry[i] = CurDir THEN SanitizeFrom(entry, i + 1, sanitized)
    ELSE IF entry[i] \in {ParentDir, RootDir, Prefix}
         THEN [ok |-> FALSE, root |-> Base, path |-> <<>>]
    ELSE SanitizeFrom(entry, i + 1, Push(sanitized, entry[i]))

\* sanitize_archive_entry_path(base, entry): CurDir is dropped, Normal
\* segments are pushed, anything else is refused. The result is root
\* followed by path.
SanitizeArchiveEntryPath(entry) == SanitizeFrom(entry, 1, [root |-> Base, path |-> <<>>])

\* fs::create_dir_all below the destination: the directory and its parents.
CreateDirAll(tree, path) ==
    tree \cup {[path |-> SubSeq(path, 1, n), isdir |-> TRUE, data |-> <<>>] : n \in 1..Len(path)}

ExtractError_LinksUnpacked(e) ==
    IF e.type = "malformed" THEN "failed to read archive entry"
    ELSE IF ~SanitizeArchiveEntryPath(e.path).ok
         THEN "archive entry contains unsupported path component"
    ELSE IF e.type \in {"dir", "file", "symlink", "hardlink"} THEN ""
    ELSE "archive entry contains unsupported type"

\* The error one turn of extract_archive_securely's loop ends with, "" when
\* the entry is extracted.
ExtractError(e) ==
    IF e.type = "malformed" THEN "failed to read archive entry"
    ELSE IF ~SanitizeArchiveEntryPath(e.path).ok
         THEN "archive entry contains unsupported path component"
    ELSE IF e.type \in {"dir", "file"} THEN ""
    ELSE IF e.type \in {"symlink", "hardlink"} THEN "archive entry contains unsupported link"
    ELSE "archive entry contains unsupported type"

ExtractEntry_Emptied(e, tree) ==
    LET full == SanitizeArchiveEntryPath(e.path)
        p == full.path
    IN  IF full.root # Base THEN tree
        ELSE IF e.type = "dir" THEN CreateDirAll(tree, p)
        ELSE {x \in CreateDirAll(tree, SubSeq(p, 1, Len(p) - 1)) : x.path # p}
               \cup {[path |-> p, isdir |-> FALSE, data |-> <<>>]}

\* The destination after an entry that is extracted: create_dir_all for a
\* Directory; create_dir_all(parent) and unpack for a Regular file, which
\* replaces a file that is there. A path that is not under the destination
\* leaves the destination as it is.
ExtractEntry(e, tree) ==
    LET full == SanitizeArchiveEntryPath(e.path)
        p == full.path
    IN  IF full.root # Base THEN tree
        ELSE IF e.type = "dir" THEN CreateDirAll(tree, p)
        ELSE {x \in CreateDirAll(tree, SubSeq(p, 1, Len(p) - 1)) : x.path # p}
               \cup {[path |-> p, isdir |-> FALSE, data |-> e.data]}

\* extract_archive_securely from entry i on, with nothing else touching the
\* destination; tree is what the destination holds so far.
RECURSIVE ExtractFrom(_, _, _)
ExtractFrom(entries, i, tree) ==
    IF i > Len(entries) THEN [ok |-> TRUE, tree |-> tree]
    ELSE IF ExtractError(entries[i]) # "" THEN [ok |-> FALSE, tree |-> tree]
    ELSE ExtractFrom(entries, i + 1, ExtractEntry(entries[i], tree))

\* Bytes that are not the manifest's and still decode as an archive.
ForeignContent == [i \in 1..SizeBytes |-> 0]

ForeignEntries == << [path |-> <<"x">>, type |-> "file", data |-> <<1>>] >>

MalformedEntries == << [path |-> <<>>, type |-> "malformed", data |-> <<>>] >>

\* GzDecoder + Archive over the partial file: the manifest's bytes are the
\* model's archive, ForeignContent is some other archive, any other byte
\* string is a stream whose first entry does not decode.
EntriesOf(data, layout) ==
    IF data = GoodContent THEN ArchiveEntries(layout)
    ELSE IF data = ForeignContent THEN ForeignEntries
    ELSE MalformedEntries

\* A whole run of extract_archive_securely over the archive.
ExtractArchiveSecurely(data, layout, tree) == ExtractFrom(EntriesOf(data, layout), 1, tree)

\* The directories at the top of a staging tree (read_dir + is_dir filter).
ExtractedDirs(tree) == {e.path[1] : e \in {x \in tree : Len(x.path) = 1 /\ x.isdir}}

\* The tree below top-level directory d, as it reads once d is renamed.
SubTree(tree, d) ==
    {[path |-> Tail(e.path), isdir |-> e.isdir, data |-> e.data] :
        e \in {x \in tree : Len(x.path) > 1 /\ x.path[1] = d}}

WithoutDir(tree, d) == {e \in tree : e.path[1] # d}

\* ------------------------------------------------------------------ state

VARIABLES
    final,        \* final[m]: the object at models_dir/<filename>
    partial,      \* partial[m]: the object at <filename>.partial
    staging,      \* staging[m]: the object at <filename>.extracting
    status,       \* available_models: is_downloaded, is_downloading, partial_size
    archive,      \* layout of the archive the manifest digest stands for
    focus,        \* the model id this run downloads and deletes
    pc,           \* pc[t]: where task t is in its call, "idle" between calls
    tm,           \* tm[t]: model id of the call
    resume_from,  \* download_model's resume_from
    downloaded,   \* download_model's downloaded
    handle,       \* download_model's open file: where its inode is now, mode, position
    range,        \* offset of the request sent: -1 none sent, 0 no Range header
    srcdir,       \* the single extracted directory, "" when there is none
    todo,         \* the archive entries extract_archive_securely has not reached yet
    cancelled,    \* cancel_download ran for the model while the task was streaming
    rejected,     \* rejected[m]: a download_model call of m failed verification, no later one has read its offset
    output,       \* what the last step emitted: a lifecycle event, a log line, or nothing
    boots,        \* how many times the process was stopped and started again
    unit          \* a call of one of the free functions: [fn, arg, done, ret]

vars == <<final, partial, staging, status, archive, focus, pc, tm, resume_from,
          downloaded, handle, range, srcdir, todo, cancelled, rejected, output, boots,
          unit>>

\* The state of the ModelManager, which the free functions do not touch.
managerVars == <<final, partial, staging, status, archive, focus, pc, tm, resume_from,
                 downloaded, handle, range, srcdir, todo, cancelled, rejected, output,
                 boots>>

\* No free function is being called on its own.
NoUnit == [fn |-> "none", arg |-> <<>>, done |-> TRUE, ret |-> <<>>]

\* The result slot of a call that has not returned (done is FALSE).
Pending == <<>>

\* A call of function fn on arg that has not run yet.
Call(fn, arg) == [fn |-> fn, arg |-> arg, done |-> FALSE, ret |-> Pending]

\* The call returns ret.
Returns(ret) == unit' = [unit EXCEPT !.done = TRUE, !.ret = ret]

\* A call of fn has returned.
Returned(fn) == unit.fn = fn /\ unit.done

fsVars == <<final, partial, staging>>

NoHandle == [at |-> "none", append |-> FALSE, pos |-> 0]

\* app_handle.emit(name, payload) and println!: the payload's model id and,
\* for model-extraction-failed, its error text.
Event(name, m, error) == [name |-> name, model_id |-> m, error |-> error]

NoOutput == Event("", "", <<>>)

Progress_Uncounted(m, down, total) ==
    [name |-> "model-download-progress", model_id |-> m, downloaded |-> 0,
     total |-> total, percentage |-> <<0, 1>>]

\* DownloadProgress: percentage is kept as the fraction the code computes,
\* <<numerator, denominator>>, the downloaded count capped at the total.
Progress(m, down, total) ==
    [name |-> "model-download-progress", model_id |-> m, downloaded |-> down,
     total |-> total,
     percentage |-> IF total > 0
                    THEN <<(IF down < total THEN down ELSE total) * 100, total>>
                    ELSE <<0, 1>>]

Emit(e) == output' = e

Silent == output' = NoOutput

InFlight(t) == pc[t] # "idle"

\* ------------------------------------------------- update_download_status

\* One model's fields as update_download_status sets them from the disk.
ReconciledStatus(m, fin, par) ==
    [is_downloaded |-> IF IsDirectory(m) THEN fin[m].kind = "dir" ELSE Exists(fin[m]),
     is_downloading |-> Exists(par[m]),
     partial_size |-> LenOrZero(par[m])]

\* The whole loop: every model's status is recomputed.
UpdateDownloadStatus(fin, par) == [m \in Models |-> ReconciledStatus(m, fin, par)]

StagingAfterRefresh_Kept(stg) == stg

\* ... and every directory model's leftover staging directory is removed.
StagingAfterRefresh(stg) ==
    [m \in Models |-> IF IsDirectory(m) /\ Exists(stg[m]) THEN NoObj ELSE stg[m]]

\* println!("Cleaning up interrupted extraction for model: {}", model.id)
RefreshOutput(stg) ==
    IF \E m \in Models : IsDirectory(m) /\ Exists(stg[m])
    THEN Event("Cleaning up interrupted extraction",
               CHOOSE m \in Models : IsDirectory(m) /\ Exists(stg[m]), <<>>)
    ELSE NoOutput

\* ------------------------------------------------------------------- Init

InstalledGood(m, layout) ==
    IF IsDirectory(m)
    THEN DirObj(IF layout = "flat" THEN ExtractFrom(ArchiveEntries(layout), 1, {}).tree
                ELSE SubTree(ExtractFrom(ArchiveEntries("wrapped"), 1, {}).tree, "pkg"))
    ELSE FileObj(GoodContent)

\* What a previous run can have left of the model in focus on disk: nothing,
\* an interrupted download, the installed artifact, or the installed artifact
\* next to a stale partial file (the bundled copy of migrate_bundled_models,
\* or a stop before the archive was removed). The other model was never
\* downloaded.
InitDisks(m, layout) ==
    { [final |-> NoObj, partial |-> NoObj],
      [final |-> NoObj, partial |-> FileObj(SubSeq(GoodContent, 1, 1))],
      [final |-> InstalledGood(m, layout), partial |-> NoObj],
      [final |-> InstalledGood(m, layout), partial |-> FileObj(SubSeq(GoodContent, 1, 1))] }

\* ModelManager::new: descriptors with default status, then
\* update_download_status over what is on disk.
Init ==
    /\ focus \in Models
    /\ archive \in IF IsDirectory(focus) THEN ArchiveLayouts ELSE {"wrapped"}
    /\ \E d \in InitDisks(focus, archive) :
         /\ final = [m \in Models |-> IF m = focus THEN d.final ELSE NoObj]
         /\ partial = [m \in Models |-> IF m = focus THEN d.partial ELSE NoObj]
    /\ staging = [m \in Models |-> NoObj]
    /\ status = UpdateDownloadStatus(final, partial)
    /\ pc = [t \in Tasks |-> "idle"]
    /\ tm = [t \in Tasks |-> "small"]
    /\ resume_from = [t \in Tasks |-> 0]
    /\ downloaded = [t \in Tasks |-> 0]
    /\ handle = [t \in Tasks |-> NoHandle]
    /\ range = [t \in Tasks |-> -1]
    /\ srcdir = [t \in Tasks |-> ""]
    /\ todo = [t \in Tasks |-> <<>>]
    /\ cancelled = [t \in Tasks |-> FALSE]
    /\ rejected = [m \in Models |-> FALSE]
    /\ output = NoOutput
    /\ boots = 0
    /\ unit = NoUnit

\* ------------------------------------------------------- open file handles

\* write_all through a handle: an append handle writes at the end of the
\* file, a File::create handle at its own position (a gap reads as zeros).
WriteAt(data, h, c) ==
    IF h.append THEN data \o c
    ELSE LET n == IF Len(data) > h.pos + Len(c) THEN Len(data) ELSE h.pos + Len(c)
         IN  [i \in 1..n |->
                 IF i > h.pos /\ i <= h.pos + Len(c) THEN c[i - h.pos]
                 ELSE IF i <= Len(data) THEN data[i] ELSE 0]

\* An open file stays with its inode: renaming <name>.partial to <name> takes
\* the open handles along, and the file replaced at <name> is unlinked.
HandlesAfterRename(m) ==
    [u \in Tasks |->
        IF tm[u] = m /\ handle[u].at = "partial" THEN [handle[u] EXCEPT !.at = "final"]
        ELSE IF tm[u] = m /\ handle[u].at = "final" THEN [handle[u] EXCEPT !.at = "gone"]
        ELSE handle[u]]

\* Removing the file at `which` of model m leaves its open handles on an
\* unlinked inode.
HandlesAfterUnlink(hs, m, which) ==
    [u \in Tasks |->
        IF tm[u] = m /\ hs[u].at = which THEN [hs[u] EXCEPT !.at = "gone"] ELSE hs[u]]

\* --------------------------------------------------------- call and return

DefaultModel == "small"

\* The operation a label belongs to.
OpOf(label) ==
    CASE label \in {"del_partial", "del_partial_deleted", "del_refresh"} -> "delete"
      [] label = "can_refresh" -> "cancel"
      [] OTHER -> "download"

VerifyErrors == {"err_size_mismatch", "err_hash_mismatch", "err_stat"}

\* A call ends with `result`: its locals are dropped.
Return(t, result) ==
    /\ pc' = [pc EXCEPT ![t] = "idle"]
    /\ rejected' = IF OpOf(pc[t]) = "download"
                   THEN [rejected EXCEPT ![tm[t]] = result \in VerifyErrors]
                   ELSE rejected
    /\ tm' = [tm EXCEPT ![t] = DefaultModel]
    /\ resume_from' = [resume_from EXCEPT ![t] = 0]
    /\ downloaded' = [downloaded EXCEPT ![t] = 0]
    /\ range' = [range EXCEPT ![t] = -1]
    /\ srcdir' = [srcdir EXCEPT ![t] = ""]
    /\ todo' = [todo EXCEPT ![t] = <<>>]
    /\ cancelled' = [cancelled EXCEPT ![t] = FALSE]

\* The call goes on at `label`.
Goto(t, label) ==
    /\ pc' = [pc EXCEPT ![t] = label]
    /\ UNCHANGED tm

\* What Goto and Return set between them, apart from pc and tm.
callVars == <<resume_from, downloaded, range, srcdir, todo, cancelled>>

\* A command arrives on a free thread (the lowest free one: threads are
\* interchangeable).
Free(t) == pc[t] = "idle" /\ \A u \in Tasks : u < t => InFlight(u)

\* The calls of a run: any call for the model in focus; for another model
\* only cancel_download, whose refresh reaches every model.
InScope(m, o) == m = focus \/ o = "cancel"

\* --------------------------------------------------------- download_model

\* download_model(m) is called: if model_path.exists()
DL_CheckFinal(t, m) ==
    /\ Free(t)
    /\ Silent
    /\ InScope(m, "download")
    /\ pc' = [pc EXCEPT ![t] = IF Exists(final[m]) THEN "dl_sc_remove" ELSE "dl_probe"]
    /\ tm' = [tm EXCEPT ![t] = m]
    /\ UNCHANGED <<fsVars, status, archive, focus, boots, unit, callVars, handle, rejected>>

PartialAfterShortCircuit_Kept(par) == par

\* if partial_path.exists() { let _ = fs::remove_file(&partial_path); }
PartialAfterShortCircuit(par) == NoObj

DL_ScRemove(t) ==
    /\ pc[t] = "dl_sc_remove"
    /\ Silent
    /\ partial' = [partial EXCEPT ![tm[t]] = PartialAfterShortCircuit(@)]
    /\ handle' = HandlesAfterUnlink(handle, tm[t], "partial")
    /\ Goto(t, "dl_sc_refresh")
    /\ UNCHANGED <<final, staging, status, archive, focus, boots, unit, callVars, rejected>>

\* self.update_download_status()?; return Ok(())
DL_ScRefresh(t) ==
    /\ pc[t] = "dl_sc_refresh"
    /\ Emit(RefreshOutput(staging))
    /\ status' = UpdateDownloadStatus(final, partial)
    /\ staging' = StagingAfterRefresh(staging)
    /\ Return(t, "ok")
    /\ UNCHANGED <<final, partial, archive, focus, boots, unit, handle>>

\* The resume offset: the partial file's length on disk, not the status map's
\* partial_size.
ResumeOffset(par, st) == LenOrZero(par)

ExceedsExpected_Never(par, digest) == FALSE

\* if size > digest.size_bytes { bail!("partial download ... exceeds expected size") }
ExceedsExpected(par, digest) == Exists(par) /\ LenOrZero(par) > digest.size_bytes

\* let resume_from = if partial_path.exists() { ... size } else { 0 }
DL_Probe(t) ==
    /\ pc[t] = "dl_probe"
    /\ Silent
    /\ IF ExceedsExpected(partial[tm[t]], DigestFor(tm[t]))
       THEN /\ Return(t, "err_exceeds")
       ELSE /\ Goto(t, "dl_mark")
            /\ resume_from' = [resume_from EXCEPT ![t] =
                                  ResumeOffset(partial[tm[t]], status[tm[t]])]
            /\ rejected' = [rejected EXCEPT ![tm[t]] = FALSE]
            /\ UNCHANGED <<downloaded, range, srcdir, todo, cancelled>>
    /\ UNCHANGED <<fsVars, status, archive, focus, boots, unit, handle>>

\* model.is_downloading = true
DL_Mark(t) ==
    /\ pc[t] = "dl_mark"
    /\ Silent
    /\ status' = [status EXCEPT ![tm[t]].is_downloading = TRUE]
    /\ Goto(t, "dl_send")
    /\ UNCHANGED <<fsVars, archive, focus, boots, unit, callVars, handle, rejected>>

\* The Range offset of the request: no header (0) for a fresh download.
RangeHeader(resume) == resume

Responses == {"send_failed", "http_error", "success"}

\* let total_size = if digest.size_bytes > 0 { digest.size_bytes } ...: the
\* manifest holds no zero size, the other branches are never taken.
TotalSize(digest) == digest.size_bytes

\* request.send().await and the status check; the server answers as it likes.
\* On success the partial file is opened: OpenOptions::new().create(true)
\* .append(true) when resuming, File::create (which truncates) otherwise;
\* downloaded starts at resume_from.
DL_Send(t) ==
    /\ pc[t] = "dl_send"
    /\ \E resp \in Responses :
         CASE resp = "send_failed" ->
                /\ Silent
                /\ Return(t, "err_request")
                /\ UNCHANGED <<status, partial, handle>>
           [] resp = "http_error" ->
                /\ Silent
                /\ Goto(t, "dl_http_error")
                /\ UNCHANGED <<status, partial, handle, callVars, rejected>>
           [] resp = "success" ->
                /\ range' = [range EXCEPT ![t] = RangeHeader(resume_from[t])]
                /\ partial' = [partial EXCEPT ![tm[t]] =
                                  IF resume_from[t] > 0 /\ Exists(@) THEN @
                                  ELSE FileObj(<<>>)]
                /\ handle' = [handle EXCEPT ![t] =
                                  [at |-> "partial", append |-> resume_from[t] > 0,
                                   pos |-> 0]]
                /\ downloaded' = [downloaded EXCEPT ![t] = resume_from[t]]
                /\ Emit(Progress(tm[t], resume_from[t], TotalSize(DigestFor(tm[t]))))
                /\ Goto(t, "dl_stream")
                /\ UNCHANGED <<status, resume_from, srcdir, todo, cancelled, rejected>>
    /\ UNCHANGED <<final, staging, archive, focus, boots, unit>>

StatusAfterHttpError_FlagKept(st) == st

\* The status of the HTTP-status branch (lines 571-576).
StatusAfterHttpError(st) == [st EXCEPT !.is_downloading = FALSE]

\* The answer is neither success nor partial content: the flag is cleared
\* and the error returned; the partial file has not been opened.
DL_HttpError(t) ==
    /\ pc[t] = "dl_http_error"
    /\ Silent
    /\ status' = [status EXCEPT ![tm[t]] = StatusAfterHttpError(@)]
    /\ Return(t, "err_http")
    /\ UNCHANGED <<fsVars, archive, focus, boots, unit, handle>>

Chunks == SeqsUpTo(MaxChunk) \ {<<>>}

\* The transfer goes on after cancel_download: the loop polls no flag
\* (lines 620-649, and the note at lines 892-894).
StreamContinues(wasCancelled) == TRUE

\* One turn of the loop: file.write_all(&chunk); downloaded += chunk.len()
DL_Chunk(t, c) ==
    /\ pc[t] = "dl_stream"
    /\ Emit(Progress(tm[t], downloaded[t] + Len(c), TotalSize(DigestFor(tm[t]))))
    /\ StreamContinues(cancelled[t])
    /\ downloaded[t] + Len(c) <= MaxFileLen
    /\ LET m == tm[t]
           h == handle[t]
       IN  CASE h.at = "partial" ->
                  /\ Len(WriteAt(partial[m].data, h, c)) <= MaxFileLen
                  /\ partial' = [partial EXCEPT ![m] = FileObj(WriteAt(@.data, h, c))]
                  /\ UNCHANGED final
             [] h.at = "final" ->
                  /\ Len(WriteAt(final[m].data, h, c)) <= MaxFileLen
                  /\ final' = [final EXCEPT ![m] = FileObj(WriteAt(@.data, h, c))]
                  /\ UNCHANGED partial
             [] OTHER -> UNCHANGED <<final, partial>>
    /\ handle' = [handle EXCEPT ![t].pos = IF handle[t].append THEN 0 ELSE @ + Len(c)]
    /\ downloaded' = [downloaded EXCEPT ![t] = @ + Len(c)]
    /\ UNCHANGED <<staging, status, archive, focus, boots, unit, pc, tm, resume_from, range, srcdir, todo,
                   cancelled, rejected>>

\* The stream yields an error: inspect_err clears is_downloading, `?` returns.
DL_StreamError(t) ==
    /\ pc[t] = "dl_stream"
    /\ Silent
    /\ status' = [status EXCEPT ![tm[t]].is_downloading = FALSE]
    /\ handle' = [handle EXCEPT ![t] = NoHandle]
    /\ Return(t, "err_stream")
    /\ UNCHANGED <<fsVars, archive, focus, boots, unit>>

\* Where download_model goes with the verdict of verify_download.
AfterVerify(m, verdict) ==
    CASE verdict = "ok" -> IF IsDirectory(m) THEN "dl_x_prepare" ELSE "dl_rename"
      [] verdict = "size_mismatch" -> "dl_vfail_size"
      [] verdict = "hash_mismatch" -> "dl_vfail_hash"
      [] OTHER -> "dl_vfail_stat"

\* The stream ends: file.flush()?; drop(file);
\* verify_download(&partial_path, &digest). The locals of the transfer are
\* not read again.
DL_Verify(t) ==
    /\ pc[t] = "dl_stream"
    /\ Silent
    /\ handle' = [handle EXCEPT ![t] = NoHandle]
    /\ Goto(t, AfterVerify(tm[t], VerifyDownload(partial[tm[t]], DigestFor(tm[t]))))
    /\ resume_from' = [resume_from EXCEPT ![t] = 0]
    /\ downloaded' = [downloaded EXCEPT ![t] = 0]
    /\ range' = [range EXCEPT ![t] = -1]
    /\ cancelled' = [cancelled EXCEPT ![t] = FALSE]
    /\ UNCHANGED <<fsVars, status, archive, focus, boots, unit, srcdir, todo, rejected>>

VerifyFailLabels == {"dl_vfail_size", "dl_vfail_hash", "dl_vfail_stat"}

VerifyError(label) ==
    CASE label = "dl_vfail_size" -> "err_size_mismatch"
      [] label = "dl_vfail_hash" -> "err_hash_mismatch"
      [] OTHER -> "err_stat"

StatusAfterVerifyFailure_Stale(st, par) == [st EXCEPT !.is_downloading = FALSE]

\* The status of the Err branch of verify_download (lines 655-661).
StatusAfterVerifyFailure(st, par) ==
    [st EXCEPT !.is_downloading = FALSE, !.partial_size = LenOrZero(par)]

DL_VerifyFailed(t) ==
    /\ pc[t] \in VerifyFailLabels
    /\ Silent
    /\ status' = [status EXCEPT ![tm[t]] = StatusAfterVerifyFailure(@, partial[tm[t]])]
    /\ Return(t, VerifyError(pc[t]))
    /\ UNCHANGED <<fsVars, archive, focus, boots, unit, handle>>

\* fs::rename returns io::Result: the disk may refuse a rename whose source
\* and target are in order.
RenameOutcomes == {"renamed", "io_error"}

\* fs::rename(&partial_path, &model_path)?
DL_Rename(t) ==
    /\ pc[t] = "dl_rename"
    /\ Silent
    /\ \E outcome \in RenameOutcomes :
       IF Exists(partial[tm[t]]) /\ outcome = "renamed"
       THEN /\ final' = [final EXCEPT ![tm[t]] = partial[tm[t]]]
            /\ partial' = [partial EXCEPT ![tm[t]] = NoObj]
            /\ handle' = HandlesAfterRename(tm[t])
            /\ Goto(t, "dl_finish")
            /\ UNCHANGED <<callVars, rejected>>
       ELSE /\ Return(t, "err_io")
            /\ UNCHANGED <<final, partial, handle>>
    /\ UNCHANGED <<staging, status, archive, focus, boots, unit>>

\* if temp_extract_dir.exists() { remove_dir_all }; fs::create_dir_all(..)?
DL_XPrepare(t) ==
    /\ pc[t] = "dl_x_prepare"
    /\ Emit(Event("model-extraction-started", tm[t], <<>>))
    /\ staging' = [staging EXCEPT ![tm[t]] = DirObj({})]
    /\ Goto(t, "dl_x_extract")
    /\ UNCHANGED <<final, partial, status, archive, focus, boots, unit, callVars, handle, rejected>>

\* File::open(&partial_path)?; GzDecoder::new; Archive::new; the archive is
\* read through the open file from here on.
DL_XExtract(t) ==
    /\ pc[t] = "dl_x_extract"
    /\ Silent
    /\ IF ~Exists(partial[tm[t]])
       THEN /\ Return(t, "err_io")
       ELSE /\ todo' = [todo EXCEPT ![t] = EntriesOf(partial[tm[t]].data, archive)]
            /\ Goto(t, "dl_x_entries")
            /\ UNCHANGED <<resume_from, downloaded, range, srcdir, cancelled, rejected>>
    /\ UNCHANGED <<fsVars, status, archive, focus, boots, unit, handle>>

\* One turn of the loop of extract_archive_securely: the entry is refused
\* (the function returns Err) or extracted; create_dir_all re-creates a
\* staging directory that was removed meanwhile. After the last entry the
\* function returns Ok.
DL_XEntry(t) ==
    /\ pc[t] = "dl_x_entries"
    /\ Silent
    /\ LET e == Head(todo[t])
       IN  IF ExtractError(e) # ""
           THEN /\ Goto(t, "dl_x_failed")
                /\ UNCHANGED <<staging, todo>>
           ELSE /\ staging' = [staging EXCEPT ![tm[t]] = DirObj(ExtractEntry(e, @.tree))]
                /\ todo' = [todo EXCEPT ![t] = Tail(@)]
                /\ Goto(t, IF Len(todo[t]) = 1 THEN "dl_x_scan" ELSE "dl_x_entries")
    /\ UNCHANGED <<final, partial, status, archive, focus, boots, unit, handle,
                   resume_from, downloaded, range, srcdir, cancelled, rejected>>

\* format!("Failed to extract archive: {error}")
ExtractFailure(entries) == <<"Failed to extract archive", ExtractError(Head(entries))>>

StatusAfterExtractFailure_FlagKept(st, par) == [st EXCEPT !.partial_size = LenOrZero(par)]

\* The status of the Err branch of the extraction (lines 701-707).
StatusAfterExtractFailure(st, par) ==
    [st EXCEPT !.is_downloading = FALSE, !.partial_size = LenOrZero(par)]

\* let _ = fs::remove_dir_all(&temp_extract_dir); emit; status; return Err
DL_XFailed(t) ==
    /\ pc[t] = "dl_x_failed"
    /\ Emit(Event("model-extraction-failed", tm[t], ExtractFailure(todo[t])))
    /\ staging' = [staging EXCEPT ![tm[t]] = NoObj]
    /\ status' = [status EXCEPT ![tm[t]] = StatusAfterExtractFailure(@, partial[tm[t]])]
    /\ Return(t, "err_extract")
    /\ UNCHANGED <<final, partial, archive, focus, boots, unit, handle>>

\* fs::read_dir(&temp_extract_dir)? and the is_dir filter
DL_XScan(t) ==
    /\ pc[t] = "dl_x_scan"
    /\ Silent
    /\ IF ~Exists(staging[tm[t]])
       THEN /\ Return(t, "err_io")
       ELSE LET dirs == ExtractedDirs(staging[tm[t]].tree)
            IN  /\ srcdir' = [srcdir EXCEPT ![t] =
                                 IF Cardinality(dirs) = 1 THEN CHOOSE d \in dirs : TRUE
                                 ELSE ""]
                /\ Goto(t, "dl_x_rmfinal")
                /\ UNCHANGED <<resume_from, downloaded, range, todo, cancelled, rejected>>
    /\ UNCHANGED <<fsVars, status, archive, focus, boots, unit, handle>>

\* if final_model_dir.exists() { fs::remove_dir_all(&final_model_dir)?; }
DL_XRmFinal(t) ==
    /\ pc[t] = "dl_x_rmfinal"
    /\ Silent
    /\ final' = [final EXCEPT ![tm[t]] = NoObj]
    /\ Goto(t, "dl_x_rename")
    /\ UNCHANGED <<partial, staging, status, archive, focus, boots, unit, callVars, handle, rejected>>

\* fs::rename(&source_dir, &final_model_dir)? for a single extracted
\* directory, fs::rename(&temp_extract_dir, &final_model_dir)? otherwise. A
\* rename onto a directory that is not empty fails.
DL_XRename(t) ==
    /\ pc[t] = "dl_x_rename"
    /\ Silent
    /\ LET m == tm[t]
           src == IF srcdir[t] # ""
                  THEN IF Exists(staging[m]) /\ srcdir[t] \in ExtractedDirs(staging[m].tree)
                       THEN DirObj(SubTree(staging[m].tree, srcdir[t])) ELSE NoObj
                  ELSE staging[m]
       IN  \E outcome \in RenameOutcomes :
           IF Exists(src) /\ ~(Exists(final[m]) /\ final[m].tree # {})
              /\ outcome = "renamed"
           THEN /\ final' = [final EXCEPT ![m] = src]
                /\ staging' = [staging EXCEPT ![m] =
                                  IF srcdir[t] # "" THEN DirObj(WithoutDir(@.tree, srcdir[t]))
                                  ELSE NoObj]
                /\ Goto(t, "dl_x_cleanup")
                /\ UNCHANGED <<callVars, rejected>>
           ELSE /\ Return(t, "err_io")
                /\ UNCHANGED <<final, staging>>
    /\ UNCHANGED <<partial, status, archive, focus, boots, unit, handle>>

\* let _ = fs::remove_dir_all(&temp_extract_dir) (single directory only);
\* let _ = fs::remove_file(&partial_path)
DL_XCleanup(t) ==
    /\ pc[t] = "dl_x_cleanup"
    /\ Emit(Event("model-extraction-completed", tm[t], <<>>))
    /\ staging' = [staging EXCEPT ![tm[t]] = IF srcdir[t] # "" THEN NoObj ELSE @]
    /\ partial' = [partial EXCEPT ![tm[t]] = NoObj]
    /\ handle' = HandlesAfterUnlink(handle, tm[t], "partial")
    /\ Goto(t, "dl_finish")
    /\ UNCHANGED <<final, status, archive, focus, boots, unit, callVars, rejected>>

\* The status of the success path (lines 746-753).
StatusAfterSuccess(st) ==
    [st EXCEPT !.is_downloading = FALSE, !.is_downloaded = TRUE, !.partial_size = 0]

DL_Finish(t) ==
    /\ pc[t] = "dl_finish"
    /\ Emit(Event("model-download-complete", tm[t], <<>>))
    /\ status' = [status EXCEPT ![tm[t]] = StatusAfterSuccess(@)]
    /\ Return(t, "ok")
    /\ UNCHANGED <<fsVars, archive, focus, boots, unit, handle>>

\* ----------------------------------------------------------- delete_model

\* The final artifact delete_model removes: a directory for a directory
\* model, whatever exists at the path for a file model.
DeletableFinal(m, o) == IF IsDirectory(m) THEN o.kind = "dir" ELSE Exists(o)

\* delete_model(m) is called: the final artifact is removed if it exists.
DEL_Final(t, m) ==
    /\ Free(t)
    /\ Silent
    /\ InScope(m, "delete")
    /\ tm' = [tm EXCEPT ![t] = m]
    /\ IF DeletableFinal(m, final[m])
       THEN /\ final' = [final EXCEPT ![m] = NoObj]
            /\ handle' = HandlesAfterUnlink(handle, m, "final")
            /\ pc' = [pc EXCEPT ![t] = "del_partial_deleted"]
       ELSE /\ pc' = [pc EXCEPT ![t] = "del_partial"]
            /\ UNCHANGED <<final, handle>>
    /\ UNCHANGED <<partial, staging, status, archive, focus, boots, unit, callVars, rejected>>

\* if partial_path.exists() { fs::remove_file(&partial_path)?; }
\* if !deleted_something { return Err(..) }
DEL_Partial(t) ==
    /\ pc[t] \in {"del_partial", "del_partial_deleted"}
    /\ Silent
    /\ IF Exists(partial[tm[t]]) \/ pc[t] = "del_partial_deleted"
       THEN /\ partial' = [partial EXCEPT ![tm[t]] = NoObj]
            /\ handle' = HandlesAfterUnlink(handle, tm[t], "partial")
            /\ Goto(t, "del_refresh")
            /\ UNCHANGED <<callVars, rejected>>
       ELSE /\ Return(t, "err_nothing")
            /\ UNCHANGED <<partial, handle>>
    /\ UNCHANGED <<final, staging, status, archive, focus, boots, unit>>

\* self.update_download_status()?; Ok(())
DEL_Refresh(t) ==
    /\ pc[t] = "del_refresh"
    /\ Emit(RefreshOutput(staging))
    /\ status' = UpdateDownloadStatus(final, partial)
    /\ staging' = StagingAfterRefresh(staging)
    /\ Return(t, "ok")
    /\ UNCHANGED <<final, partial, archive, focus, boots, unit, handle>>

\* -------------------------------------------------------- cancel_download

\* cancel_download(m) is called: model.is_downloading = false; nothing
\* reaches the download task.
CAN_Flag(t, m) ==
    /\ Free(t)
    /\ Silent
    /\ InScope(m, "cancel")
    /\ status' = [status EXCEPT ![m].is_downloading = FALSE]
    /\ cancelled' = [u \in Tasks |-> cancelled[u] \/ (pc[u] = "dl_stream" /\ tm[u] = m)]
    /\ pc' = [pc EXCEPT ![t] = "can_refresh"]
    /\ tm' = [tm EXCEPT ![t] = m]
    /\ UNCHANGED <<fsVars, archive, focus, boots, unit, resume_from, downloaded, range, srcdir, todo, handle,
                   rejected>>

\* The status cancel_download leaves: update_download_status recomputes it.
StatusAfterCancel(fin, par) == UpdateDownloadStatus(fin, par)

\* self.update_download_status()?; Ok(())
CAN_Refresh(t) ==
    /\ pc[t] = "can_refresh"
    /\ Emit(RefreshOutput(staging))
    /\ status' = StatusAfterCancel(final, partial)
    /\ staging' = StagingAfterRefresh(staging)
    /\ Return(t, "ok")
    /\ UNCHANGED <<final, partial, archive, focus, boots, unit, handle>>

\* --------------------------------------------------------- the status lock

MemoryOps == {"status_read", "status_write"}

\* update_download_status takes available_models.lock() on entry and holds
\* it over the whole loop: the exists / is_dir probes, the metadata reads
\* and remove_dir_all of the staging directory happen under it.
RefreshLockSection ==
    {"status_write", "fs_exists", "fs_is_dir", "fs_metadata", "fs_remove_dir_all"}

\* What the step a call takes from `label` does between
\* available_models.lock() and the end of that block.
LockSection(label) ==
    CASE label \in {"dl_sc_refresh", "del_refresh", "can_refresh"} -> RefreshLockSection
      [] label \in {"dl_mark", "dl_http_error", "dl_stream", "dl_finish"} -> {"status_write"}
      [] label \in VerifyFailLabels \cup {"dl_x_failed"} -> {"status_write", "fs_metadata"}
      [] OTHER -> {}

\* ---------------------------------------------------------------- restart

\* migrate_bundled_models: the bundled ggml-small.bin, when the build ships
\* one, is copied to the models directory unless a file is there already.
MigrateBundledModels(fin, bundled) ==
    [fin EXCEPT !["small"] = IF bundled /\ ~Exists(@) THEN FileObj(GoodContent) ELSE @]

\* The process stops wherever its calls are (their locals and open files go
\* with it) and is started again: ModelManager::new builds the descriptors
\* with default status, migrates the bundled model and runs
\* update_download_status over what is on disk.
Restart ==
    /\ boots < MaxBoots
    /\ boots' = boots + 1
    /\ \E bundled \in BOOLEAN : final' = MigrateBundledModels(final, bundled)
    /\ status' = UpdateDownloadStatus(final', partial)
    /\ staging' = StagingAfterRefresh(staging)
    /\ Emit(RefreshOutput(staging))
    /\ pc' = [t \in Tasks |-> "idle"]
    /\ tm' = [t \in Tasks |-> DefaultModel]
    /\ resume_from' = [t \in Tasks |-> 0]
    /\ downloaded' = [t \in Tasks |-> 0]
    /\ handle' = [t \in Tasks |-> NoHandle]
    /\ range' = [t \in Tasks |-> -1]
    /\ srcdir' = [t \in Tasks |-> ""]
    /\ todo' = [t \in Tasks |-> <<>>]
    /\ cancelled' = [t \in Tasks |-> FALSE]
    /\ rejected' = [m \in Models |-> FALSE]
    /\ UNCHANGED <<partial, archive, focus, unit>>

\* ------------------------------------------------------------------- Next

\* A call is made.
Enter(t, m) ==
    \/ DL_CheckFinal(t, m)
    \/ DEL_Final(t, m)
    \/ CAN_Flag(t, m)

\* A call in flight takes its next step.
Step(t) ==
    \/ DL_ScRemove(t)
    \/ DL_ScRefresh(t)
    \/ DL_Probe(t)
    \/ DL_Mark(t)
    \/ DL_Send(t)
    \/ DL_HttpError(t)
    \/ \E c \in Chunks : DL_Chunk(t, c)
    \/ DL_StreamError(t)
    \/ DL_Verify(t)
    \/ DL_VerifyFailed(t)
    \/ DL_Rename(t)
    \/ DL_XPrepare(t)
    \/ DL_XExtract(t)
    \/ DL_XEntry(t)
    \/ DL_XFailed(t)
    \/ DL_XScan(t)
    \/ DL_XRmFinal(t)
    \/ DL_XRename(t)
    \/ DL_XCleanup(t)
    \/ DL_Finish(t)
    \/ DEL_Partial(t)
    \/ DEL_Refresh(t)
    \/ CAN_Refresh(t)

Next ==
    \/ \E t \in Tasks, m \in Models : Enter(t, m)
    \/ \E t \in Tasks : Step(t)

\* Overlapping calls are followed for every archive layout but the one that
\* differs from "flat" only in the depth of its first file.
OverlapLayouts == ArchiveLayouts \ {"mixed"}

InitOverlap == Init /\ archive \in OverlapLayouts

Spec == InitOverlap /\ [][Next]_vars

\* No call for a model id starts while another call for that id is in flight
\* (the per-id exclusion the callers are to provide); calls for different ids
\* still overlap.
NoCallInFlightFor(m) == \A t \in Tasks : InFlight(t) => tm[t] # m

NextExclusive ==
    \/ \E t \in Tasks, m \in Models : NoCallInFlightFor(m) /\ Enter(t, m)
    \/ \E t \in Tasks : Step(t)

SpecExclusive == Init /\ [][NextExclusive]_vars

\* The same calls, and the process may be stopped and started again.
NextRecovery ==
    \/ NextExclusive
    \/ Restart

SpecRecovery == Init /\ [][NextRecovery]_vars

\* ------------------------------------------------------------- properties

AllIdle == \A t \in Tasks : pc[t] = "idle"

\* The artifact of model m is what the manifest entry stands for: the file
\* with the manifest's size and sha256, or the tree of the manifest's archive.
MatchesManifest(m, o) ==
    IF IsDirectory(m)
    THEN o = InstalledGood(m, archive)
    ELSE o.kind = "file" /\ VerifyDownload(o, DigestFor(m)) = "ok"

\* C1: whatever calls interleave, a final artifact is made of bytes that
\* verify_download accepted: it never differs in size or sha256 from the
\* model's manifest entry.
C1_FinalMatchesManifest ==
    \A m \in Models : Exists(final[m]) => MatchesManifest(m, final[m])

\* C2: for every model id at most one download_model call has the partial
\* file open for writing.
C2_SingleWriter ==
    \A m \in Models : Cardinality({t \in Tasks : pc[t] = "dl_stream" /\ tm[t] = m}) <= 1

\* C3: once cancel_download ran for the model of a streaming download_model
\* call, that call writes no further chunk and never goes on to verify and
\* install: its next step can only be to give up.
C3_CancelAbortsTransfer ==
    [][\A t \in Tasks :
          cancelled[t] /\ pc[t] = "dl_stream" =>
             \/ pc'[t] = "idle"
             \/ pc'[t] = "dl_stream" /\ downloaded'[t] = downloaded[t]]_vars

\* C4: when cancel_download returns, the model's is_downloading is false, its
\* partial_size is the length of the partial file on disk, and the partial
\* file is as it was.
C4_CancelLeavesNotDownloading ==
    [][\A t \in Tasks :
          pc[t] = "can_refresh" /\ pc'[t] = "idle" =>
             /\ ~status'[tm[t]].is_downloading
             /\ status'[tm[t]].partial_size = LenOrZero(partial'[tm[t]])
             /\ partial' = partial]_vars

\* C5: the download_model call that follows one which failed verification
\* starts from byte zero: it takes no offset from the rejected partial file.
C5_RestartAfterRejection ==
    [][\A t \in Tasks :
          pc[t] = "dl_probe" /\ pc'[t] = "dl_mark" /\ rejected[tm[t]]
              => resume_from'[t] = 0]_vars

\* C6: when verify_download rejects the streamed bytes, download_model
\* returns the verification error; on that path it creates no final artifact
\* and leaves the partial file alone, and it returns with is_downloading
\* false and partial_size the length of the partial file on disk.
C6_VerifyFailureKeepsPartial ==
    [][\A t \in Tasks :
          /\ pc[t] = "dl_stream" /\ pc'[t] \notin {"dl_stream", "idle"} =>
                /\ final' = final /\ partial' = partial
                /\ pc'[t] \in VerifyFailLabels
                      <=> VerifyDownload(partial[tm[t]], DigestFor(tm[t])) # "ok"
          /\ pc[t] \in VerifyFailLabels /\ pc'[t] # pc[t] =>
                /\ pc'[t] = "idle"
                /\ final' = final /\ partial' = partial
                /\ rejected'[tm[t]]
                /\ ~status'[tm[t]].is_downloading
                /\ status'[tm[t]].partial_size = LenOrZero(partial'[tm[t]])]_vars

\* Scenario C: the full size was downloaded, the hash differs, the call has
\* returned.
C6_Witness ==
    \E m \in Models :
        /\ AllIdle /\ rejected[m]
        /\ VerifyDownload(partial[m], DigestFor(m)) = "hash_mismatch"
        /\ ~Exists(final[m])
        /\ status[m] = [is_downloaded |-> FALSE, is_downloading |-> FALSE,
                        partial_size |-> SizeBytes]

\* C7: with a partial file of N bytes, 0 < N < T, download_model takes N from
\* the file on disk, requests the range from byte N, and writes each chunk it
\* receives right after the N bytes and the chunks before it, so that the
\* bytes it hands to verification are the N bytes followed by what it
\* received.
C7_ResumeCorrect ==
    [][\A t \in Tasks :
          /\ pc[t] = "dl_probe" /\ pc'[t] = "dl_mark" =>
                resume_from'[t] = LenOrZero(partial[tm[t]])
          /\ pc[t] = "dl_stream" => range[t] = resume_from[t]
          /\ pc[t] = "dl_stream" /\ resume_from[t] > 0 /\ pc'[t] # "idle" =>
                /\ Exists(partial[tm[t]])
                /\ Len(partial[tm[t]].data) = downloaded[t]
                /\ downloaded'[t] > downloaded[t] =>
                      /\ Len(partial'[tm[t]].data) = downloaded'[t]
                      /\ SubSeq(partial'[tm[t]].data, 1, downloaded[t])
                            = partial[tm[t]].data]_vars

\* C8: download_model for a model whose final artifact exists sends no
\* request, leaves the final artifact as it is, removes the partial file and
\* returns Ok.
C8_InstalledShortCircuit ==
    [][\A t \in Tasks :
          /\ pc[t] = "idle" /\ pc'[t] \in {"dl_sc_remove", "dl_probe"} =>
                (pc'[t] = "dl_sc_remove" <=> Exists(final[tm'[t]]))
          /\ pc[t] \in {"dl_sc_remove", "dl_sc_refresh"} => range[t] = -1
          /\ pc[t] = "dl_sc_remove" /\ pc'[t] # pc[t] =>
                /\ pc'[t] = "dl_sc_refresh"
                /\ final' = final
                /\ ~Exists(partial'[tm[t]])
          /\ pc[t] = "dl_sc_refresh" /\ pc'[t] # pc[t] =>
                /\ pc'[t] = "idle"
                /\ final' = final /\ partial' = partial
                /\ status'[tm[t]].is_downloaded = Exists(final'[tm[t]])]_vars

\* The call has removed a stale partial file next to the installed artifact
\* and is about to return.
C8_Witness ==
    \E t \in Tasks :
        /\ pc[t] = "dl_sc_refresh"
        /\ Exists(final[tm[t]]) /\ ~Exists(partial[tm[t]])
        /\ status[tm[t]].is_downloading /\ status[tm[t]].partial_size > 0

\* C9: when download_model returns Ok after a transfer, the final artifact
\* exists, the partial file does not, and the status is
\* {is_downloaded: true, is_downloading: false, partial_size: 0}.
C9_SuccessPostcondition ==
    [][\A t \in Tasks :
          pc[t] = "dl_finish" /\ pc'[t] = "idle" =>
             /\ Exists(final'[tm[t]])
             /\ ~Exists(partial'[tm[t]])
             /\ status'[tm[t]] = [is_downloaded |-> TRUE, is_downloading |-> FALSE,
                                  partial_size |-> 0]]_vars

\* C10: whenever no call is in flight for a model, at startup and after any
\* call has returned, its status is what the disk says: is_downloaded iff the
\* final path exists, is_downloading iff the partial file exists,
\* partial_size the partial file's length.
C10_StatusMatchesDisk ==
    \A m \in Models :
        NoCallInFlightFor(m) => status[m] = ReconciledStatus(m, final, partial)

\* A call of cancel_download is made in this step (its first lock section).
CancelEnters == \E t \in Tasks : pc[t] = "idle" /\ pc'[t] = "can_refresh"

\* C11: whenever a step takes a model's is_downloading from true to false
\* (cancel_download counted at its refresh, where its path ends), the
\* partial_size the step leaves is the length of the partial file on disk.
C11_FlagOffReadsSize ==
    [][\A m \in Models :
          (status[m].is_downloading /\ ~status'[m].is_downloading /\ ~CancelEnters)
             => status'[m].partial_size = LenOrZero(partial'[m])]_vars

\* Task t takes this step.
Acted(t) == pc'[t] # pc[t] \/ downloaded'[t] # downloaded[t] \/ todo'[t] # todo[t]

\* The model id of the call that takes this step.
ModelOf(t) == IF pc[t] = "idle" THEN tm'[t] ELSE tm[t]

\* C12: a step of a call for model A leaves every other model B as it was:
\* B's status entry and B's final artifact, .partial and .extracting.
C12_IdsIndependent ==
    [][\A t \in Tasks : Acted(t) =>
          \A b \in Models \ {ModelOf(t)} :
             /\ status'[b] = status[b]
             /\ final'[b] = final[b]
             /\ partial'[b] = partial[b]
             /\ staging'[b] = staging[b]]_vars

\* C13: while no call is in flight for a model, its is_downloaded and
\* is_downloading are not both true.
C13_FlagsExclusiveWhenSteady ==
    \A m \in Models :
       NoCallInFlightFor(m) => ~(status[m].is_downloaded /\ status[m].is_downloading)

\* C14: a model's partial_size never exceeds the size_bytes of its manifest
\* entry.
C14_PartialSizeBounded ==
    \A m \in Models : status[m].partial_size <= DigestFor(m).size_bytes

\* C15: whatever a call is about to do under the status lock is a read or a
\* write of the status map, never a disk or network operation.
C15_LockSectionsMemoryOnly ==
    \A t \in Tasks : InFlight(t) => LockSection(pc[t]) \subseteq MemoryOps

\* The trees a complete extraction of the model's archive can be promoted
\* to: everything the archive's entries produce, or the content of one of
\* its top-level directories; and the tree installed before.
CompleteTrees(layout) ==
    LET full == ExtractFrom(ArchiveEntries(layout), 1, {}).tree
    IN  {full} \cup {SubTree(full, d) : d \in ExtractedDirs(full)}
          \cup {InstalledGood("parakeet", layout).tree}

\* C16: the final path of an archive model never holds a partially extracted
\* tree: a directory there is a complete extraction of the archive.
C16_NoPartialTreeAtFinal ==
    \A m \in Models :
       (IsDirectory(m) /\ final[m].kind = "dir") => final[m].tree \in CompleteTrees(archive)

\* C17: download_model takes the failure branch exactly when an entry of the
\* archive is refused; extracting touches neither the final path nor the
\* partial file; the failure branch leaves both as they are, removes the
\* staging directory, emits model-extraction-failed with the model id and
\* the error text, sets is_downloading to false and returns the error.
C17_ExtractFailureDiscardsStaging ==
    [][\A t \in Tasks :
          LET m == tm[t]
          IN  /\ (pc[t] = "dl_x_entries" /\ Acted(t)) =>
                    /\ final'[m] = final[m]
                    /\ partial'[m] = partial[m]
                    /\ (pc'[t] = "dl_x_failed") <=> (ExtractError(Head(todo[t])) # "")
              /\ (pc[t] = "dl_x_failed" /\ Acted(t)) =>
                    /\ final'[m] = final[m]
                    /\ partial'[m] = partial[m]
                    /\ ~Exists(staging'[m])
                    /\ output' = Event("model-extraction-failed", m,
                                       <<"Failed to extract archive",
                                         ExtractError(Head(todo[t]))>>)
                    /\ ExtractError(Head(todo[t])) # ""
                    /\ ~status'[m].is_downloading
                    /\ status'[m].is_downloaded = status[m].is_downloaded
                    /\ pc'[t] = "idle"]_vars

\* An extraction has just failed while an artifact was installed at the
\* final path: the event is out, the artifact and the archive are still on
\* disk and the call has returned.
C17_Witness ==
    /\ output.name = "model-extraction-failed"
    /\ output.error[2] # ""
    /\ Exists(final[output.model_id])
    /\ Exists(partial[output.model_id])
    /\ ~Exists(staging[output.model_id])
    /\ ~status[output.model_id].is_downloading
    /\ NoCallInFlightFor(output.model_id)

\* The labels of download_model from the creation of the staging directory
\* on.
ExtractionLabels ==
    {"dl_x_extract", "dl_x_entries", "dl_x_failed", "dl_x_scan", "dl_x_rmfinal",
     "dl_x_rename", "dl_x_cleanup", "dl_finish"}

\* C18: when a download_model call of an archive model that has created the
\* staging directory returns, with Ok or with an error, the staging
\* directory does not exist.
C18_StagingGoneAtReturn ==
    [][\A t \in Tasks :
          (pc[t] \in ExtractionLabels /\ IsDirectory(tm[t]) /\ pc'[t] = "idle")
             => ~Exists(staging'[tm[t]])]_vars

\* What is at the top of a staging tree.
TopLevel(tree) == {e \in tree : Len(e.path) = 1}

\* The tree is a single top-level directory wrapping the content.
SingleWrapper(tree) == Cardinality(TopLevel(tree)) = 1 /\ \A e \in TopLevel(tree) : e.isdir

\* C19: the promote rename puts at the final path the content of the single
\* wrapping directory, or else the whole staging tree, so that every file
\* extraction wrote is below the final path; once the promotion is through
\* the staging directory is gone.
C19_PromotionLosesNothing ==
    [][\A t \in Tasks :
          LET m == tm[t]
              tree == staging[m].tree
          IN  /\ (pc[t] = "dl_x_rename" /\ pc'[t] = "dl_x_cleanup") =>
                    final'[m] = DirObj(IF SingleWrapper(tree)
                                       THEN SubTree(tree, (CHOOSE e \in TopLevel(tree) : TRUE).path[1])
                                       ELSE tree)
              /\ (pc[t] = "dl_x_cleanup" /\ Acted(t)) => ~Exists(staging'[m])]_vars

\* C20: when the process is stopped and started again, the startup refresh
\* removes a staging directory left behind, promotes nothing of it (the
\* final path and the archive of the model are as the stop left them) and
\* leaves the status that the disk gives; and a download that extracts
\* again starts from an empty staging directory.
C20_RestartDiscardsStaging ==
    [][/\ (boots' # boots) =>
            /\ \A m \in Models :
                  IsDirectory(m) =>
                     /\ ~Exists(staging'[m])
                     /\ final'[m] = final[m]
                     /\ partial'[m] = partial[m]
            /\ status' = [m \in Models |-> ReconciledStatus(m, final', partial')]
            /\ \A t \in Tasks : pc'[t] = "idle"
       /\ \A t \in Tasks :
            (pc[t] = "dl_x_prepare" /\ pc'[t] = "dl_x_extract")
               => staging'[tm[t]] = DirObj({})]_vars

\* The process was started again over a staging directory that held
\* extracted entries while the archive was still on disk: the directory is
\* gone, nothing was installed from it, the model reads as downloading.
C20_Witness ==
    /\ boots = 1
    /\ output = Event("Cleaning up interrupted extraction", "parakeet", <<>>)
    /\ ~Exists(staging["parakeet"])
    /\ ~Exists(final["parakeet"])
    /\ status["parakeet"] = [is_downloaded |-> FALSE, is_downloading |-> TRUE,
                             partial_size |-> SizeBytes]

\* C21: delete_model removes the final artifact when it is called and the
\* partial file in its next step; when it returns Ok neither path exists and
\* the status is {is_downloaded: false, is_downloading: false,
\* partial_size: 0}; it returns the error only when neither path exists, and
\* has changed nothing then.
C21_DeleteRemovesBoth ==
    [][\A t \in Tasks :
          LET m == ModelOf(t)
          IN  /\ (pc[t] = "idle" /\ pc'[t] \in {"del_partial", "del_partial_deleted"}) =>
                    /\ ~Exists(final'[m])
                    /\ (pc'[t] = "del_partial_deleted") <=> Exists(final[m])
              /\ (pc[t] \in {"del_partial", "del_partial_deleted"} /\ pc'[t] = "del_refresh") =>
                    ~Exists(partial'[m])
              /\ (pc[t] = "del_refresh" /\ pc'[t] = "idle") =>
                    /\ ~Exists(final'[m])
                    /\ ~Exists(partial'[m])
                    /\ status'[m] = [is_downloaded |-> FALSE, is_downloading |-> FALSE,
                                     partial_size |-> 0]
              /\ (pc[t] = "del_partial" /\ pc'[t] = "idle") =>
                    /\ ~Exists(final[m])
                    /\ ~Exists(partial[m])
                    /\ final'[m] = final[m]
                    /\ partial'[m] = partial[m]
                    /\ status'[m] = status[m]]_vars

C23_HttpErrorKeepsPartial ==
    [][\A t \in Tasks :
          LET m == ModelOf(t)
          IN  /\ (pc'[t] \in {"dl_probe", "dl_mark", "dl_send", "dl_http_error"} /\ Acted(t)) =>
                    partial'[m] = partial[m]
              /\ (pc[t] = "dl_http_error" /\ Acted(t)) =>
                    /\ pc'[t] = "idle"
                    /\ partial'[m] = partial[m]
                    /\ final'[m] = final[m]
                    /\ ~status'[m].is_downloading]_vars

\* A range request for the rest of a partial file was refused by the server:
\* the call is about to return and the bytes on disk are those of before.
C23_Witness ==
    \E t \in Tasks :
        /\ pc[t] = "dl_http_error"
        /\ resume_from[t] = 1
        /\ partial[tm[t]] = FileObj(SubSeq(GoodContent, 1, 1))
        /\ status[tm[t]].is_downloading

\* C24: the first progress event of a call reports resume_from, every
\* later one the count of the event before plus the length of the chunk just
\* written, so the reported count never decreases and is resume_from plus
\* the bytes appended so far, which is the length of the partial file; the
\* total of every event is the manifest size.
C24_ProgressFollowsChunks ==
    [][\A t \in Tasks :
          LET m == tm[t]
          IN  /\ (pc[t] = "dl_send" /\ pc'[t] = "dl_stream") =>
                    /\ output' = Progress(m, resume_from[t], DigestFor(m).size_bytes)
                    /\ downloaded'[t] = resume_from[t]
                    /\ Len(partial'[m].data) = resume_from[t]
              /\ (pc[t] = "dl_stream" /\ downloaded'[t] # downloaded[t] /\ pc'[t] = "dl_stream") =>
                    /\ output'.name = "model-download-progress"
                    /\ output'.model_id = m
                    /\ output'.total = DigestFor(m).size_bytes
                    /\ output'.downloaded >= downloaded[t]
                    /\ output'.downloaded >= resume_from[t]
                    /\ output'.downloaded - downloaded[t]
                          = Len(partial'[m].data) - Len(partial[m].data)
                    /\ output'.downloaded = Len(partial'[m].data)
              /\ (output'.name = "model-download-progress" /\ output' # output) =>
                    \E u \in Tasks : pc'[u] = "dl_stream" /\ Acted(u)]_vars

\* A resumed transfer has reported its second chunk: the count is the bytes
\* found on disk plus the two chunks.
C24_Witness ==
    \E t \in Tasks :
        /\ pc[t] = "dl_stream"
        /\ resume_from[t] = 1
        /\ output = Progress(tm[t], 3, SizeBytes)
        /\ downloaded[t] = 3
        /\ Len(partial[tm[t]].data) = 3


\* ------------------------------------------------------- the free functions

\* verify_download, sanitize_archive_entry_path, extract_archive_securely and
\* ModelManifest::load take everything they work on as arguments: they are
\* called here with no ModelManager at work, on a models directory nothing
\* was ever downloaded to.
NoManager ==
    /\ focus = DefaultModel
    /\ archive = "wrapped"
    /\ final = [m \in Models |-> NoObj]
    /\ partial = [m \in Models |-> NoObj]
    /\ staging = [m \in Models |-> NoObj]
    /\ status = UpdateDownloadStatus(final, partial)
    /\ pc = [t \in Tasks |-> "idle"]
    /\ tm = [t \in Tasks |-> DefaultModel]
    /\ resume_from = [t \in Tasks |-> 0]
    /\ downloaded = [t \in Tasks |-> 0]
    /\ handle = [t \in Tasks |-> NoHandle]
    /\ range = [t \in Tasks |-> -1]
    /\ srcdir = [t \in Tasks |-> ""]
    /\ todo = [t \in Tasks |-> <<>>]
    /\ cancelled = [t \in Tasks |-> FALSE]
    /\ rejected = [m \in Models |-> FALSE]
    /\ output = NoOutput
    /\ boots = 0

\* ------------------------------------------------------- verify_download

\* What verify_download can be pointed at: no file, or a file of any bytes.
VerifyFiles == {NoObj} \cup {FileObj(d) : d \in SeqsUpTo(MaxFileLen)}

\* The digests it can be given: any sha256, any size.
VerifyDigests ==
    [model_id : {DefaultModel}, sha256 : {Sha256(d) : d \in SeqsUpTo(MaxFileLen)},
     size_bytes : 0..MaxFileLen]

InitVerify ==
    /\ NoManager
    /\ \E o \in VerifyFiles, d \in VerifyDigests :
         unit = Call("verify_download", [file |-> o, digest |-> d])

\* verify_download(path, digest) runs and returns.
VerifyDownloadCall ==
    /\ unit.fn = "verify_download"
    /\ ~unit.done
    /\ Returns(VerifyDownload(unit.arg.file, unit.arg.digest))
    /\ UNCHANGED managerVars

NextVerify == VerifyDownloadCall

SpecVerify == InitVerify /\ [][NextVerify]_vars

\* C25: verify_download on an existing file returns Ok exactly when the
\* file's length is digest.size_bytes and its sha256 is digest.sha256; a file
\* of another length fails with the size mismatch whatever its bytes and
\* whatever the digest's hash; a file of the right length and another hash
\* fails with the hash mismatch.
C25_VerifySizeThenHash ==
    (Returned("verify_download") /\ Exists(unit.arg.file)) =>
       LET sameSize == Len(unit.arg.file.data) = unit.arg.digest.size_bytes
           sameHash == Sha256(unit.arg.file.data) = unit.arg.digest.sha256
       IN  /\ (unit.ret = "ok") <=> (sameSize /\ sameHash)
           /\ ~sameSize => unit.ret = "size_mismatch"
           /\ (sameSize /\ ~sameHash) => unit.ret = "hash_mismatch"

\* A file whose sha256 is the digest's and whose length is not was refused
\* for its size.
C25_Witness ==
    /\ Returned("verify_download")
    /\ Exists(unit.arg.file)
    /\ Sha256(unit.arg.file.data) = unit.arg.digest.sha256
    /\ Len(unit.arg.file.data) # unit.arg.digest.size_bytes
    /\ unit.ret = "size_mismatch"


\* ------------------------------------------ sanitize_archive_entry_path

\* Components of one entry path at most.
MaxComponents == 3

\* Every sequence of at most n elements of S.
SeqsOver(S, n) == UNION {[1..k -> S] : k \in 0..n}

\* What Path::components can return: a Prefix only first, RootDir first or
\* right after the Prefix, CurDir only first (a later "." is skipped by
\* components itself), and a segment with a drive prefix never first (there
\* it is the Prefix).
IsComponents(p) ==
    \A i \in 1..Len(p) :
       /\ p[i] \in {Prefix, CurDir} => i = 1
       /\ p[i] = RootDir => (i = 1 \/ (i = 2 /\ p[1] = Prefix))
       /\ HasPrefix(p[i]) => i > 1

EntryPaths ==
    {p \in SeqsOver({CurDir, ParentDir, RootDir, Prefix, "a", "b", "C:"}, MaxComponents) :
        IsComponents(p)}

InitSanitize ==
    /\ NoManager
    /\ \E p \in EntryPaths :
         unit = Call("sanitize_archive_entry_path", p)

\* sanitize_archive_entry_path(base, entry) runs and returns.
SanitizeCall ==
    /\ unit.fn = "sanitize_archive_entry_path"
    /\ ~unit.done
    /\ Returns(SanitizeArchiveEntryPath(unit.arg))
    /\ UNCHANGED managerVars

NextSanitize == SanitizeCall

SpecSanitize == InitSanitize /\ [][NextSanitize]_vars

\* The segments of an entry path that name something: no component kind
\* and no drive.
Ordinary(c) == c \notin {CurDir, ParentDir, RootDir, Prefix} /\ ~HasPrefix(c)

\* C26: sanitize_archive_entry_path refuses every entry path that has a
\* parent-directory component, a root or a drive prefix anywhere; for a
\* path of ordinary segments and current-directory components it returns
\* base joined with the ordinary segments in order; every Ok result is under
\* base.
C26_SanitizedUnderBase ==
    Returned("sanitize_archive_entry_path") =>
       /\ (\E i \in 1..Len(unit.arg) : ~Ordinary(unit.arg[i]) /\ unit.arg[i] # CurDir)
             => ~unit.ret.ok
       /\ (\A i \in 1..Len(unit.arg) : Ordinary(unit.arg[i]) \/ unit.arg[i] = CurDir)
             => /\ unit.ret.ok
                /\ unit.ret.root = Base
                /\ unit.ret.path = SelectSeq(unit.arg, Ordinary)
       /\ unit.ret.ok => unit.ret.root = Base


\* -------------------------------------------- extract_archive_securely

\* Entries of one archive at most.
MaxEntries == 2

\* The paths the entries of an archive are drawn from.
ArchivePaths ==
    { <<"a">>, <<"d">>, <<"d", "a">>, <<CurDir, "a">>, <<ParentDir, "a">>, <<"d", "C:">> }

\* The entries a tar stream can hold: directories, regular files with their
\* bytes, symbolic and hard links, and one of the other types (a fifo).
EntryKinds ==
    [type : {"dir", "symlink", "hardlink", "fifo"}, data : {<<>>}]
       \cup [type : {"file"}, data : {<<0>>, <<1>>}]

Archives ==
    SeqsOver({[path |-> p, type |-> k.type, data |-> k.data] :
                  p \in ArchivePaths, k \in EntryKinds}, MaxEntries)

\* What is at path p of the tree.
IsFileAt(tree, p) == \E x \in tree : x.path = p /\ ~x.isdir
IsDirAt(tree, p) == p = <<>> \/ \E x \in tree : x.path = p /\ x.isdir

\* fs::create_dir_all(path) fails when the path or one of its parents is a file.
CreateDirAllFails(tree, path) ==
    \E n \in 1..Len(path) : IsFileAt(tree, SubSeq(path, 1, n))

\* The io errors of one turn of the loop on a destination that holds tree,
\* "" when there is none: create_dir_all on a file; unpack, which replaces
\* a file and fails on a directory.
UnpackError(e, tree) ==
    LET full == SanitizeArchiveEntryPath(e.path)
        p == full.path
    IN  IF full.root # Base THEN ""
        ELSE IF e.type = "dir"
             THEN IF CreateDirAllFails(tree, p) THEN "failed to create directory" ELSE ""
        ELSE IF p = <<>> THEN "failed to unpack"
        ELSE IF CreateDirAllFails(tree, SubSeq(p, 1, Len(p) - 1))
             THEN "failed to create parent directory"
        ELSE IF IsDirAt(tree, p) THEN "failed to unpack"
        ELSE ""

\* What an extracted entry creates that is not under the destination.
OutsideOf(e) ==
    LET full == SanitizeArchiveEntryPath(e.path)
    IN  IF full.root # Base THEN {[root |-> full.root, path |-> full.path, type |-> e.type]}
        ELSE {}

InitExtract ==
    /\ NoManager
    /\ \E entries \in Archives :
         unit = [fn |-> "extract_archive_securely", arg |-> entries, done |-> FALSE,
                 ret |-> "", todo |-> entries, tree |-> {}, outside |-> {}]

\* One turn of the loop of extract_archive_securely(archive, destination) on
\* an empty destination directory: the entry is refused or runs into an io
\* error (the function returns Err), or it is extracted; after the last
\* entry the function returns Ok.
ExtractStep ==
    /\ unit.fn = "extract_archive_securely"
    /\ ~unit.done
    /\ IF unit.todo = <<>>
       THEN unit' = [unit EXCEPT !.done = TRUE, !.ret = ""]
       ELSE LET e == Head(unit.todo)
                err == IF ExtractError(e) # "" THEN ExtractError(e)
                       ELSE UnpackError(e, unit.tree)
            IN  IF err # ""
                THEN unit' = [unit EXCEPT !.done = TRUE, !.ret = err]
                ELSE unit' = [unit EXCEPT !.todo = Tail(@),
                                          !.tree = ExtractEntry(e, @),
                                          !.outside = @ \cup OutsideOf(e)]
    /\ UNCHANGED managerVars

NextExtract == ExtractStep

SpecExtract == InitExtract /\ [][NextExtract]_vars

IsLink(e) == e.type \in {"symlink", "hardlink"}

HasLink(entries) == \E i \in 1..Len(entries) : IsLink(entries[i])

LinkError == "archive entry contains unsupported link"

\* C27 as stated: every archive with a symbolic-link or hard-link entry is
\* refused with the "unsupported link" error.
C27_LinkErrorForEveryArchive ==
    (Returned("extract_archive_securely") /\ HasLink(unit.arg)) => unit.ret = LinkError

\* C27, amended: an archive with a link entry is never extracted to the
\* end; the turn of the loop that meets a link entry returns an error (the
\* "unsupported link" error when the entry's path passes the path check, the
\* path error otherwise), creates and writes nothing, and no turn follows
\* the return.
C27_LinkEntryRefused ==
    [][/\ (unit.fn = "extract_archive_securely" /\ ~unit.done /\ unit.todo # <<>>
             /\ IsLink(Head(unit.todo)))
          => /\ unit'.done
             /\ unit'.ret = IF SanitizeArchiveEntryPath(Head(unit.todo).path).ok
                            THEN LinkError
                            ELSE "archive entry contains unsupported path component"
             /\ unit'.tree = unit.tree
             /\ unit'.outside = unit.outside
             /\ unit'.todo = unit.todo
       /\ (unit.fn = "extract_archive_securely" /\ unit'.done /\ HasLink(unit.arg))
          => /\ unit'.ret # ""
             /\ \E i \in 1..Len(unit.arg) :
                   /\ unit'.todo = SubSeq(unit.arg, i, Len(unit.arg))
                   /\ \A j \in 1..(i - 1) : ~IsLink(unit.arg[j])
       /\ (unit.fn = "extract_archive_securely" /\ unit.done) => unit' = unit]_vars

\* A file was extracted, then a hard link was refused with the entries
\* after it left alone.
C27_Witness ==
    /\ Returned("extract_archive_securely")
    /\ unit.ret = LinkError
    /\ Len(unit.arg) = 2
    /\ unit.arg[1].type = "file"
    /\ unit.arg[2].type = "hardlink"
    /\ unit.todo = <<unit.arg[2]>>
    /\ IsFileAt(unit.tree, <<"a">>)
    /\ Cardinality(unit.tree) = 1


\* An entry path of ordinary segments and current-directory components.
SafePath(p) == \A i \in 1..Len(p) : Ordinary(p[i]) \/ p[i] = CurDir

\* Only directories and regular files, all at safe paths.
PlainArchive(entries) ==
    \A i \in 1..Len(entries) :
       entries[i].type \in {"dir", "file"} /\ SafePath(entries[i].path)

\* Where an entry of a plain archive belongs below the destination.
PlaceOf(e) == SelectSeq(e.path, Ordinary)

IsPrefixOf(p, q) == Len(p) <= Len(q) /\ SubSeq(q, 1, Len(p)) = p

\* The tree a plain archive describes: its directories with their parents,
\* the parents of its files, and its files with their bytes.
TreeOf(entries) ==
    LET E == {entries[i] : i \in 1..Len(entries)}
    IN  UNION {
           {[path |-> SubSeq(PlaceOf(e), 1, n), isdir |-> TRUE, data |-> <<>>] :
               n \in 1..(IF e.type = "dir" THEN Len(PlaceOf(e)) ELSE Len(PlaceOf(e)) - 1)}
             \cup (IF e.type = "file"
                   THEN {[path |-> PlaceOf(e), isdir |-> FALSE, data |-> e.data]}
                   ELSE {}) : e \in E}

\* No file entry is at the place of another entry or above it.
NoCollision(entries) ==
    \A i, j \in 1..Len(entries) :
       (i # j /\ entries[i].type = "file") =>
          ~IsPrefixOf(PlaceOf(entries[i]), PlaceOf(entries[j]))

DigestLen == 64

\* "deadbeef".repeat(8)
FillerRepeats == 8

RECURSIVE Repeat(_, _)
Repeat(word, n) == IF n = 0 THEN <<>> ELSE word \o Repeat(word, n - 1)

Deadbeef == <<"d", "e", "a", "d", "b", "e", "e", "f">>
Cafebabe == <<"c", "a", "f", "e", "b", "a", "b", "e">>

HexDigits ==
    {"0", "1", "2", "3", "4", "5", "6", "7", "8", "9",
     "a", "b", "c", "d", "e", "f", "A", "B", "C", "D", "E", "F"}

\* char::is_ascii_hexdigit
IsAsciiHexdigit(c) == c \in HexDigits

\* char::to_lowercase on the characters of a hex string.
LowerChar(c) ==
    CASE c = "A" -> "a" [] c = "B" -> "b" [] c = "C" -> "c"
      [] c = "D" -> "d" [] c = "E" -> "e" [] c = "F" -> "f"
      [] OTHER -> c

\* str::to_lowercase
ToLowercase(s) == [i \in 1..Len(s) |-> LowerChar(s[i])]

\* chars().all(|c| c == ch)
AllChars(s, ch) == \A i \in 1..Len(s) : s[i] = ch

\* The placeholder check of load (109-115), on the digest as it is written
\* in the manifest.
IsPlaceholder(digest) ==
    \/ \E ch \in {"0", "1", "2", "3", "4"} : AllChars(digest, ch)
    \/ digest = Repeat(Deadbeef, FillerRepeats)
    \/ digest = Repeat(Cafebabe, FillerRepeats)

\* The closure load maps over the entries of the manifest: the error it
\* bails with, or the ModelDigest it stores.
LoadEntry(entry) ==
    IF entry.size = 0
    THEN [ok |-> FALSE, error |-> "contains zero size", digest |-> <<>>]
    ELSE IF Len(entry.digest) # DigestLen
            \/ \E i \in 1..Len(entry.digest) : ~IsAsciiHexdigit(entry.digest[i])
    THEN [ok |-> FALSE, error |-> "has invalid sha256 digest", digest |-> <<>>]
    ELSE IF IsPlaceholder(entry.digest)
    THEN [ok |-> FALSE, error |-> "contains placeholder sha256 digest (security risk)",
          digest |-> <<>>]
    ELSE [ok |-> TRUE, error |-> "",
          digest |-> [model_id |-> entry.id, sha256 |-> ToLowercase(entry.digest),
                      size_bytes |-> entry.size]]

\* ModelManifest::load on a manifest that was read and parsed: the first
\* entry that is refused fails the load, otherwise every entry's digest is
\* stored under its id (a later entry of the same id replaces the earlier).
RECURSIVE LoadFrom(_, _, _)
LoadFrom(models, i, digests) ==
    IF i > Len(models) THEN [ok |-> TRUE, error |-> "", digests |-> digests]
    ELSE LET r == LoadEntry(models[i])
         IN  IF ~r.ok THEN [ok |-> FALSE, error |-> r.error, digests |-> {}]
             ELSE LoadFrom(models, i + 1,
                           {d \in digests : d.model_id # models[i].id} \cup {r.digest})

Load(models) == LoadFrom(models, 1, {})

\* The characters the digests of the manifests are written with.
DigestChars == {"0", "1", "4", "5", "9", "a", "f", "A", "F", "g", "-"}

\* The 8-character words a digest can repeat.
DigestWords ==
    { Deadbeef, Cafebabe,
      <<"D", "E", "A", "D", "B", "E", "E", "F">>,
      <<"D", "e", "a", "d", "B", "e", "e", "f">>,
      <<"C", "A", "F", "E", "B", "A", "B", "E">>,
      <<"0", "1", "2", "3", "a", "b", "c", "d">>,
      <<"9", "F", "8", "6", "D", "0", "8", "1">> }

\* One character repeated, a word repeated, each of these with its last
\* character replaced, and the repeated character one short and one long.
ManifestDigests ==
    LET full == {Repeat(<<c>>, DigestLen) : c \in DigestChars}
                   \cup {Repeat(w, FillerRepeats) : w \in DigestWords}
    IN  full
          \cup {[d EXCEPT ![Len(d)] = c] : d \in full, c \in DigestChars}
          \cup {Repeat(<<c>>, n) : c \in DigestChars, n \in {DigestLen - 1, DigestLen + 1}}

\* A second entry, when the manifest has one.
SecondEntries ==
    [id : {"parakeet"},
     digest : {Repeat(<<"0", "1", "2", "3", "a", "b", "c", "d">>, FillerRepeats),
               Repeat(<<"0">>, DigestLen)},
     size : {SizeBytes}]

Manifests ==
    LET first == [id : {"small"}, digest : ManifestDigests, size : {0, SizeBytes}]
    IN  {<<e>> : e \in first} \cup {<<e, s>> : e \in first, s \in SecondEntries}

InitLoad ==
    /\ NoManager
    /\ \E models \in Manifests : unit = Call("ModelManifest::load", models)

\* ModelManifest::load runs and returns.
LoadCall ==
    /\ unit.fn = "ModelManifest::load"
    /\ ~unit.done
    /\ Returns(Load(unit.arg))
    /\ UNCHANGED managerVars

NextLoad == LoadCall

SpecLoad == InitLoad /\ [][NextLoad]_vars

\* A string of one repeated character, whatever the character.
SingleRepeated(s) == \A i \in 1..Len(s) : s[i] = s[1]

\* "deadbeef" or "cafebabe" repeated to 32 bytes, in any case of the letters.
Filler(s) == ToLowercase(s) \in {Repeat(Deadbeef, FillerRepeats), Repeat(Cafebabe, FillerRepeats)}

WellFormed(s) == Len(s) = DigestLen /\ \A i \in 1..Len(s) : IsAsciiHexdigit(s[i])

\* C29: of a manifest with one entry whose digest has 64 characters, load
\* refuses the entry when the digest has a character that is no hex digit,
\* when it is one character repeated or a filler pattern, and accepts every
\* other well-formed digest with a nonzero size.
C29_PlaceholdersRefused ==
    (Returned("ModelManifest::load") /\ Len(unit.arg) = 1
       /\ Len(unit.arg[1].digest) = DigestLen) =>
       LET e == unit.arg[1]
       IN  /\ ~WellFormed(e.digest) => ~unit.ret.ok
           /\ (SingleRepeated(e.digest) \/ Filler(e.digest)) => ~unit.ret.ok
           /\ (WellFormed(e.digest) /\ ~SingleRepeated(e.digest) /\ ~Filler(e.digest)
                 /\ e.size > 0) => unit.ret.ok

\* C30: every digest a loaded manifest stores is lowercase hex of 64
\* characters with a size above zero and is no placeholder; a placeholder
\* written in upper or mixed case fails the load.
C30_StoredDigestsLowercase ==
    Returned("ModelManifest::load") =>
       /\ unit.ret.ok =>
            \A d \in unit.ret.digests :
               /\ WellFormed(d.sha256)
               /\ d.sha256 = ToLowercase(d.sha256)
               /\ d.size_bytes > 0
               /\ ~SingleRepeated(d.sha256)
               /\ ~Filler(d.sha256)
       /\ (\E i \in 1..Len(unit.arg) :
              SingleRepeated(unit.arg[i].digest) \/ Filler(unit.arg[i].digest))
            => ~unit.ret.ok


\* ---------------------------------------------------- ModelManager::new

InitNew ==
    /\ NoManager
    /\ \E models \in Manifests :
         unit = [fn |-> "ModelManager::new", arg |-> models, done |-> FALSE,
                 ret |-> [ok |-> FALSE, error |-> ""], at |-> "load", manifest |-> {}]

\* let manifest = ModelManifest::load(&app_handle)?: an error of load is the
\* error of new, and no ModelManager is built.
NEW_Load ==
    /\ unit.fn = "ModelManager::new"
    /\ ~unit.done
    /\ unit.at = "load"
    /\ LET r == Load(unit.arg)
       IN  IF r.ok
           THEN unit' = [unit EXCEPT !.at = "status", !.manifest = r.digests]
           ELSE unit' = [unit EXCEPT !.done = TRUE,
                                     !.ret = [ok |-> FALSE, error |-> r.error]]
    /\ UNCHANGED managerVars

\* The manager is built around the manifest; migrate_bundled_models and
\* update_download_status run over the models directory, and new returns it.
NEW_Status ==
    /\ unit.fn = "ModelManager::new"
    /\ ~unit.done
    /\ unit.at = "status"
    /\ \E bundled \in BOOLEAN : final' = MigrateBundledModels(final, bundled)
    /\ status' = UpdateDownloadStatus(final', partial)
    /\ unit' = [unit EXCEPT !.done = TRUE, !.ret = [ok |-> TRUE, error |-> ""]]
    /\ UNCHANGED <<partial, staging, archive, focus, pc, tm, resume_from, downloaded,
                   handle, range, srcdir, todo, cancelled, rejected, output, boots>>

NextNew ==
    \/ NEW_Load
    \/ NEW_Status

SpecNew == InitNew /\ [][NextNew]_vars

\* An entry load is to refuse: no size, a digest that is not 64 hex digits,
\* or a placeholder digest.
BadEntry(e) ==
    \/ e.size = 0
    \/ ~WellFormed(e.digest)
    \/ SingleRepeated(e.digest)
    \/ Filler(e.digest)

\* C31: when any entry of the manifest has no size, a digest that is not 64
\* hex digits or a placeholder digest, ModelManager::new returns an error
\* and no manifest mapping is kept, whatever the other entries are.
C31_ManifestAllOrNothing ==
    (Returned("ModelManager::new")
       /\ \E i \in 1..Len(unit.arg) : BadEntry(unit.arg[i])) =>
       /\ ~unit.ret.ok
       /\ unit.manifest = {}

\* The same for the entries the code recognises as bad.
C31_RecognisedAllOrNothing ==
    (Returned("ModelManager::new")
       /\ \E i \in 1..Len(unit.arg) : ~LoadEntry(unit.arg[i]).ok) =>
       /\ ~unit.ret.ok
       /\ unit.manifest = {}


\* ------------------------------------------- commands::download_model

\* An error message is the sequence of its words, as Display prints the
\* outermost message of the anyhow error.
Contains(text, keyword) ==
    \E i \in 1..(Len(text) - Len(keyword) + 1) :
        SubSeq(text, i, i + Len(keyword) - 1) = keyword

\* lower.contains("http "): the word, with a word after it.
ContainsHttp(text) == \E i \in 1..(Len(text) - 1) : text[i] = "http"

LowerWord(w) ==
    CASE w = "Failed" -> "failed"
      [] w = "HTTP" -> "http"
      [] w = "Not" -> "not"
      [] w = "Found" -> "found"
      [] w = "Range" -> "range"
      [] w = "Satisfiable" -> "satisfiable"
      [] w = "Internal" -> "internal"
      [] w = "Server" -> "server"
      [] w = "Error" -> "error"
      [] w = "Fifo" -> "fifo"
      [] w = "C:" -> "c:"
      [] OTHER -> w

ToAsciiLowercase(text) == [i \in DOMAIN text |-> LowerWord(text[i])]

\* classify_download_error(error): the code of the ModelCommandError, chosen
\* by the first keyword the lowercased message contains.
ClassifyDownloadError(error) ==
    LET lower == ToAsciiLowercase(error)
        code ==
          IF Contains(lower, <<"hash", "mismatch">>) THEN "checksum_mismatch"
          ELSE IF Contains(lower, <<"size", "mismatch">>) THEN "size_mismatch"
          ELSE IF \/ Contains(lower, <<"failed", "to", "extract", "archive">>)
                  \/ Contains(lower, <<"unsupported", "link">>)
                  \/ Contains(lower, <<"unsupported", "path", "component">>)
               THEN "archive_error"
          ELSE IF \/ Contains(lower, <<"failed", "to", "request", "model">>)
                  \/ ContainsHttp(lower)
                  \/ Contains(lower, <<"timeout">>)
               THEN "network_error"
          ELSE "download_failed"
    IN  [code |-> code, detail |-> error]

\* The messages of verify_download.
VerifyText(outcome, m) ==
    CASE outcome = "size_mismatch" ->
           <<"size", "mismatch", "for", "model", m, ":", "expected", "bytes", "got">>
      [] outcome = "hash_mismatch" ->
           <<"hash", "mismatch", "for", "model", m, ":", "expected", "got">>
      [] OTHER -> <<"unable", "to", "stat", "downloaded", "artifact", "at", m>>

\* The messages of extract_archive_securely, followed by the entry's path.
ExtractText(err, path) ==
    (CASE err = "archive entry contains unsupported path component" ->
            <<"archive", "entry", "contains", "unsupported", "path", "component", ":">>
       [] err = "archive entry contains unsupported link" ->
            <<"archive", "entry", "contains", "unsupported", "link", ":">>
       [] err = "archive entry contains unsupported type" ->
            <<"archive", "entry", "contains", "unsupported", "type", "Fifo", ":">>
       [] err = "failed to create directory" -> <<"failed", "to", "create", "directory">>
       [] err = "failed to create parent directory" ->
            <<"failed", "to", "create", "parent", "directory">>
       [] err = "failed to unpack" -> <<"failed", "to", "unpack">>
       [] OTHER -> <<"failed", "to", "read", "archive", "entry", "path">>)
      \o path

\* The error extract_archive_securely returns for the archive on a
\* destination that holds tree, err = "" when it returns Ok.
RECURSIVE FirstError(_, _)
FirstError(entries, tree) ==
    IF entries = <<>> THEN [err |-> "", path |-> <<>>]
    ELSE LET e == Head(entries)
             err == IF ExtractError(e) # "" THEN ExtractError(e)
                    ELSE UnpackError(e, tree)
         IN  IF err # "" THEN [err |-> err, path |-> e.path]
             ELSE FirstError(Tail(entries), ExtractEntry(e, tree))

StatusLines ==
    { <<"404", "Not", "Found">>, <<"416", "Range", "Not", "Satisfiable">>,
      <<"500", "Internal", "Server", "Error">> }

\* The ways download_model comes to return an error: the oversize partial
\* file, the request that cannot be sent, the response status, the
\* verification of the transfer, the extraction of the archive.
Failure(site, m, o, entries, line) ==
    [site |-> site, model |-> m, file |-> o, entries |-> entries, line |-> line]

DownloadFailures ==
    {Failure(site, m, NoObj, <<>>, <<>>) : site \in {"exceeds", "send"}, m \in Models}
      \cup {Failure("status", m, NoObj, <<>>, line) : m \in Models, line \in StatusLines}
      \cup UNION {{Failure("verify", m, o, <<>>, <<>>) :
                      o \in {x \in VerifyFiles : VerifyDownload(x, DigestFor(m)) # "ok"}} :
                   m \in Models}
      \cup {Failure("extract", "parakeet", NoObj, entries, <<>>) :
              entries \in {a \in Archives \cup {MalformedEntries} : FirstError(a, {}).err # ""}}

\* The error download_model returns from that site: the bail at 525, the
\* context at 564, the message at 577, verify_download's error at 662 and
\* extract_archive_securely's own error at 708.
DownloadModelError(f) ==
    CASE f.site = "exceeds" ->
           <<"partial", "download", "for", "model", f.model, "exceeds", "expected", "size">>
      [] f.site = "send" -> <<"failed", "to", "request", "model", f.model>>
      [] f.site = "status" ->
           <<"Failed", "to", "download", "model", ":", "HTTP">> \o f.line
      [] f.site = "verify" -> VerifyText(VerifyDownload(f.file, DigestFor(f.model)), f.model)
      [] OTHER -> LET r == FirstError(f.entries, {}) IN ExtractText(r.err, r.path)

InitClassify ==
    /\ NoManager
    /\ \E f \in DownloadFailures :
         unit = [fn |-> "commands::download_model", arg |-> f, done |-> FALSE,
                 ret |-> [code |-> "", detail |-> <<>>], at |-> "call", error |-> <<>>]

\* model_manager.download_model(&model_id).await returns the error.
CMD_DownloadModel ==
    /\ unit.fn = "commands::download_model"
    /\ ~unit.done
    /\ unit.at = "call"
    /\ unit' = [unit EXCEPT !.at = "map_err", !.error = DownloadModelError(unit.arg)]
    /\ UNCHANGED managerVars

\* .map_err(|e| classify_download_error(e)) and the command returns.
CMD_Classify ==
    /\ unit.fn = "commands::download_model"
    /\ ~unit.done
    /\ unit.at = "map_err"
    /\ unit' = [unit EXCEPT !.done = TRUE, !.ret = ClassifyDownloadError(unit.error)]
    /\ UNCHANGED managerVars

NextClassify ==
    \/ CMD_DownloadModel
    \/ CMD_Classify

SpecClassify == InitClassify /\ [][NextClassify]_vars

\* The class a failure belongs to.
ClassOf(f) ==
    CASE f.site = "verify" /\ VerifyDownload(f.file, DigestFor(f.model)) = "size_mismatch" ->
           "size_mismatch"
      [] f.site = "verify" /\ VerifyDownload(f.file, DigestFor(f.model)) = "hash_mismatch" ->
           "checksum_mismatch"
      [] f.site = "extract" -> "archive_error"
      [] f.site \in {"send", "status"} -> "network_error"
      [] OTHER -> "download_failed"

\* C32: the command download_model reports every failure under the code of
\* its own class: a size mismatch as size_mismatch, a hash mismatch as
\* checksum_mismatch, every error of the archive extraction as
\* archive_error, a request or status failure as network_error, and no
\* other failure under one of these four codes.
C32_FailureClassified ==
    Returned("commands::download_model") => unit.ret.code = ClassOf(unit.arg)

\* The same for the failures outside the archive extraction.
C32_ClassifiedButExtraction ==
    (Returned("commands::download_model") /\ unit.arg.site # "extract") =>
        unit.ret.code = ClassOf(unit.arg)

\* An unsafe path component and a link are reported as archive_error.
C32_PathAndLinkAreArchiveErrors ==
    (Returned("commands::download_model") /\ unit.arg.site = "extract"
       /\ FirstError(unit.arg.entries, {}).err \in
            {"archive entry contains unsupported path component", LinkError}) =>
        unit.ret.code = "archive_error"


\* --------------------------------------------------------- get_model_path

\* model_path.exists() (&& model_path.is_dir() for a directory model)
ArtifactThere(m, fin) == IF IsDirectory(m) THEN fin[m].kind = "dir" ELSE Exists(fin[m])

NoPath(m) == [ok |-> FALSE, place |-> "none", model |-> m]

GetModelPath_PartialIgnored(m, info, fin, par) ==
    IF ~info.is_downloaded THEN NoPath(m)
    ELSE IF info.is_downloading THEN NoPath(m)
    ELSE IF ArtifactThere(m, fin)
         THEN [ok |-> TRUE, place |-> "final", model |-> m]
    ELSE NoPath(m)

\* What get_model_path returns for the descriptor it read and the disk it
\* looks at: Ok(models_dir/filename) or an error.
GetModelPath(m, info, fin, par) ==
    IF ~info.is_downloaded THEN NoPath(m)
    ELSE IF info.is_downloading THEN NoPath(m)
    ELSE IF ArtifactThere(m, fin) /\ ~Exists(par[m])
         THEN [ok |-> TRUE, place |-> "final", model |-> m]
    ELSE NoPath(m)

\* get_model_path(m) is called: get_model_info clones the descriptor under
\* the lock.
GMP_Info(m) ==
    /\ unit.done
    /\ unit' = [fn |-> "get_model_path", arg |-> m, done |-> FALSE,
                ret |-> NoPath(m), info |-> status[m]]
    /\ UNCHANGED managerVars

\* The flags of the descriptor are tested, then the disk, and it returns.
GMP_Check ==
    /\ unit.fn = "get_model_path"
    /\ ~unit.done
    /\ unit' = [unit EXCEPT !.done = TRUE,
                            !.ret = GetModelPath(unit.arg, unit.info, final, partial)]
    /\ UNCHANGED managerVars

\* The engine's calls, one at a time for a model id, and a reader that asks
\* for a model's path while they run.
NextPath ==
    \/ NextExclusive
    \/ \E m \in Models : GMP_Info(m)
    \/ GMP_Check

SpecPath == Init /\ [][NextPath]_vars

GMP_Returns == unit.fn = "get_model_path" /\ ~unit.done /\ unit'.done

\* C33: get_model_path returns Ok exactly when the descriptor it read has
\* is_downloaded and not is_downloading and, on disk, the final artifact is
\* there (a directory for a directory model) and no .partial file is; the
\* path it returns is the final path, and in every other case it returns an
\* error and no path.
C33_PathOnlyWhenInstalled ==
    [][GMP_Returns =>
          LET m == unit.arg
              ret == unit'.ret
          IN  /\ ret.ok <=> /\ unit.info.is_downloaded
                            /\ ~unit.info.is_downloading
                            /\ ArtifactThere(m, final)
                            /\ ~Exists(partial[m])
              /\ ret.ok => ret.place = "final" /\ ret.model = m
              /\ ~ret.ok => ret.place = "none"]_vars

\* A path is returned while no call is in flight.
C33_Witness ==
    /\ Returned("get_model_path")
    /\ unit.ret.ok
    /\ AllIdle


\* The labels of download_model after the flag is set (540-545), and the
\* one whose step returns Ok.
MarkedLabels ==
    {"dl_send", "dl_http_error", "dl_stream", "dl_rename", "dl_x_prepare", "dl_x_extract", "dl_x_entries", "dl_x_failed", "dl_x_scan",
     "dl_x_rmfinal", "dl_x_rename", "dl_x_cleanup", "dl_finish"} \cup VerifyFailLabels

ErrorReturn(t) == pc[t] \in MarkedLabels \ {"dl_finish"} /\ pc'[t] = "idle"

\* C34: when download_model returns an error after it has set
\* is_downloading, the model's is_downloading is false as the call returns.
C34_ErrorClearsDownloading ==
    [][\A t \in Tasks : ErrorReturn(t) => ~status'[tm[t]].is_downloading]_vars

\* The same for the error returns that reset the flag themselves: the
\* response status, the stream, the verification and the extraction.
C34_HandledErrorsClearDownloading ==
    [][\A t \in Tasks :
          (ErrorReturn(t) /\ pc[t] \in {"dl_http_error", "dl_stream", "dl_x_failed"}
                                           \cup VerifyFailLabels)
             => ~status'[tm[t]].is_downloading]_vars


\* The call of task t found the whole transfer in the .partial file: its
\* resume offset is the manifest's size and the bytes are the manifest's.
FoundComplete(t) ==
    /\ resume_from[t] = DigestFor(tm[t]).size_bytes
    /\ VerifyDownload(partial[tm[t]], DigestFor(tm[t])) = "ok"

\* C35: a download_model call that found a complete, correct .partial file
\* and whose range request is answered with a non-success status does not
\* return that error: it goes on to verify and install the file.
C35_CompletePartialNotStuck ==
    [][\A t \in Tasks :
          (pc[t] = "dl_http_error" /\ Acted(t) /\ FoundComplete(t)) => pc'[t] # "idle"]_vars

\* With a success answer that carries no more bytes, the call that found the
\* complete file installs it.
C35_InstalledOnSuccess ==
    [][\A t \in Tasks :
          (pc[t] = "dl_stream" /\ pc'[t] \notin {"dl_stream", "idle"}
             /\ FoundComplete(t) /\ downloaded[t] = resume_from[t]) =>
                pc'[t] \in {"dl_rename", "dl_x_prepare"}]_vars

====
